---- MODULE Spec2Model ----
(***************************************************************************)
(* Bookstore API (bookstore_api/api): registration, catalogue writes, the  *)
(* cart, order placement and reviews, as a state machine over the rows of  *)
(* the database tables.  Each request handler of views.py / serializers.py *)
(* is one action of Spec.  ConcSpec runs add_item and place-order as the   *)
(* sequence of database statements the handlers issue (Django autocommit:  *)
(* the handlers open no transaction and take no row lock), so that two     *)
(* requests interleave statement by statement.                             *)
(***************************************************************************)
EXTENDS Integers, FiniteSets, Sequences, TLC

\* ------------------------------------------------------------------ bounds
MaxQty == 2       \* largest quantity a request carries
MaxItemQty == 3   \* cap on the quantity accumulated in one CartItem
MaxBooks == 2     \* cap on the number of Book rows
MaxPrice == 2     \* prices are 1..MaxPrice (integral money units)
MaxStock == 1     \* a created book starts with stock 1..MaxStock
MaxOrders == 1    \* cap on the number of Order rows
MaxReviews == 3   \* cap on the number of Review rows
MaxRating == 2    \* ratings are 1..MaxRating
InitialStock == 2 \* ConcSpec: the stock of each book when the requests arrive

RegNames == {"alice"}   \* usernames that may register
Admin == "admin"               \* the staff user of tests.py setUp
Anonymous == "anonymous"       \* a request without credentials
Requesters == RegNames \cup {Admin, Anonymous}
Reviewers == {"alice", "bob"}  \* the registered users of ReviewSpec
ReviewRequesters == Reviewers \cup {Admin, Anonymous}
BookIds == 1..MaxBooks
Procs == {1, 2}                \* ConcSpec: the two concurrent requests

VARIABLES
    users,       \* auth User rows (usernames)
    staff,       \* users with is_staff
    carts,       \* Cart rows       [id, user]
    cartItems,   \* CartItem rows   [id, cart, book, quantity]
    books,       \* Book rows       [id, price, stock_quantity]
    orders,      \* Order rows      [id, user, total_price]
    orderItems,  \* OrderItem rows  [id, order, book, quantity, price]
    reviews,     \* Review rows     [id, book, user, rating]
    response,    \* the last response sent: the request and its status
    procs,       \* ConcSpec: the in-flight requests and their locals
    start        \* ConcSpec: the tables when the requests were issued

vars == <<users, staff, carts, cartItems, books, orders, orderItems,
          reviews, response, procs, start>>

tables == <<users, staff, carts, cartItems, books, orders, orderItems, reviews>>

\* ----------------------------------------------------------------- helpers
\* the primary key the database gives the next row of a table: one that no
\* row of the table holds (the least such, so that keys stay bounded)
NextId(rows) ==
    LET used == {r.id : r \in rows}
    IN CHOOSE n \in 1..(Cardinality(rows) + 1) :
          n \notin used /\ \A m \in 1..(n - 1) : m \in used

\* the sum of the quantities of a set of CartItem rows
RECURSIVE SumQuantity(_)
SumQuantity(S) ==
    IF S = {} THEN 0
    ELSE LET x == CHOOSE y \in S : TRUE IN x.quantity + SumQuantity(S \ {x})

Resp(op, user, status, book, quantity) ==
    [op |-> op, user |-> user, status |-> status, book |-> book,
     quantity |-> quantity]

BookRow(bs, b) == CHOOSE r \in bs : r.id = b

CartsOf(cs, u) == {c \in cs : c.user = u}
ItemsOf(its, c) == {i \in its : i.cart = c}
ItemsFor(its, c, b) == {i \in its : i.cart = c /\ i.book = b}

\* Cart.total_price (a property of the Cart model, which is not among the
\* sources): the sum of the items' book price times quantity (spec 4.4)
RECURSIVE SumSubtotals(_, _)
SumSubtotals(S, bs) ==
    IF S = {} THEN 0
    ELSE LET x == CHOOSE y \in S : TRUE
         IN BookRow(bs, x.book).price * x.quantity + SumSubtotals(S \ {x}, bs)

Cart_total_price(its, bs, c) == SumSubtotals(ItemsOf(its, c), bs)

\* the serializer's validation of the quantity field, derived from the
\* CartItem model (not among the sources): a positive integer (spec 3)
ValidQuantity(q) == q >= 1

IsAuthenticated(u) == u \in users

\* ------------------------------------------------------------ permissions
\* rest_framework IsAuthenticated: 0 lets the request through, 401 rejects it
PermissionStatus(perm, u) ==
    IF perm = "IsAuthenticated" /\ ~IsAuthenticated(u) THEN 401 ELSE 0

BookViewSet_get_permissions(action) ==
    IF action \in {"create"} THEN "IsAuthenticated"
    ELSE IF action \in {"update", "partial_update", "destroy"}
         THEN "IsOwnerOrReadOnly"
         ELSE "AllowAny"

\* ----------------------------------------------------------- registration
\* RegisterSerializer.create: the user row, then a Cart row for it
RegisterSerializer_create(u) ==
    /\ users' = users \cup {u}
    /\ carts' = carts \cup {[id |-> NextId(carts), user |-> u]}

\* POST /register/ (AllowAny): validate() compares the two passwords, the
\* username must be new
RegisterView(u, passwordsMatch) ==
    /\ IF passwordsMatch /\ u \notin users
       THEN /\ RegisterSerializer_create(u)
            /\ response' = Resp("register", u, 201, 0, 0)
       ELSE /\ UNCHANGED <<users, carts>>
            /\ response' = Resp("register", u, 400, 0, 0)
    /\ UNCHANGED <<staff, cartItems, books, orders, orderItems, reviews,
                   procs, start>>

\* -------------------------------------------------------------- catalogue
\* POST /books/: BookViewSet.create under get_permissions()
BookViewSet_create(u, price, stock) ==
    LET denied == PermissionStatus(BookViewSet_get_permissions("create"), u)
    IN /\ IF denied # 0
          THEN /\ UNCHANGED books
               /\ response' = Resp("book_create", u, denied, 0, 0)
          ELSE /\ Cardinality(books) < MaxBooks
               /\ books' = books \cup
                    {[id |-> NextId(books), price |-> price,
                      stock_quantity |-> stock]}
               /\ response' = Resp("book_create", u, 201, NextId(books), 0)
       /\ UNCHANGED <<users, staff, carts, cartItems, orders, orderItems,
                      reviews, procs, start>>

\* ------------------------------------------------------------------- cart
\* faulty variant: add_item overwrites the quantity of the existing row
CartItemSerializer_create_replaces(its, c, b, q) ==
    LET found == ItemsFor(its, c, b)
    IN IF found # {}
       THEN LET cart_item == CHOOSE i \in found : TRUE
            IN (its \ {cart_item}) \cup {[cart_item EXCEPT !.quantity = q]}
       ELSE its \cup {[id |-> NextId(its), cart |-> c, book |-> b,
                       quantity |-> q]}

\* CartItemSerializer.create on the rows `its`, for cart id c: the existing
\* row's quantity grows by q, or a new row is created
CartItemSerializer_create(its, c, b, q) ==
    LET found == ItemsFor(its, c, b)
    IN IF found # {}
       THEN LET cart_item == CHOOSE i \in found : TRUE
            IN (its \ {cart_item}) \cup
               {[cart_item EXCEPT !.quantity = cart_item.quantity + q]}
       ELSE its \cup {[id |-> NextId(its), cart |-> c, book |-> b,
                       quantity |-> q]}

\* POST /cart/add_item/
add_item(u, b, q) ==
    /\ IF ~IsAuthenticated(u)
       THEN /\ UNCHANGED cartItems
            /\ response' = Resp("add_item", u, 401, 0, 0)
       ELSE IF b \notin {r.id : r \in books} \/ ~ValidQuantity(q)
       THEN \* serializer.is_valid(raise_exception=True)
            /\ UNCHANGED cartItems
            /\ response' = Resp("add_item", u, 400, 0, 0)
       ELSE IF Cardinality(CartsOf(carts, u)) # 1
       THEN \* Cart.objects.get raises: an unhandled exception
            /\ UNCHANGED cartItems
            /\ response' = Resp("add_item", u, 500, 0, 0)
       ELSE LET cart == CHOOSE c \in CartsOf(carts, u) : TRUE
                found == ItemsFor(cartItems, cart.id, b)
            IN IF Cardinality(found) > 1
               THEN \* CartItem.objects.get raises MultipleObjectsReturned
                    /\ UNCHANGED cartItems
                    /\ response' = Resp("add_item", u, 500, 0, 0)
               ELSE /\ \A i \in found : i.quantity + q <= MaxItemQty
                    /\ cartItems' =
                         CartItemSerializer_create(cartItems, cart.id, b, q)
                    /\ response' = Resp("add_item", u, 200, b, q)
    /\ UNCHANGED <<users, staff, carts, books, orders, orderItems, reviews,
                   procs, start>>

\* POST /cart/remove_item/
remove_item(u, b) ==
    /\ IF ~IsAuthenticated(u)
       THEN /\ UNCHANGED cartItems
            /\ response' = Resp("remove_item", u, 401, 0, 0)
       ELSE IF CartsOf(carts, u) = {}
       THEN \* get_object_or_404(Cart, user=request.user)
            /\ UNCHANGED cartItems
            /\ response' = Resp("remove_item", u, 404, 0, 0)
       ELSE IF Cardinality(CartsOf(carts, u)) > 1
       THEN /\ UNCHANGED cartItems
            /\ response' = Resp("remove_item", u, 500, 0, 0)
       ELSE LET cart == CHOOSE c \in CartsOf(carts, u) : TRUE
                found == ItemsFor(cartItems, cart.id, b)
            IN IF found = {}
               THEN /\ UNCHANGED cartItems
                    /\ response' = Resp("remove_item", u, 404, 0, 0)
               ELSE IF Cardinality(found) > 1
               THEN /\ UNCHANGED cartItems
                    /\ response' = Resp("remove_item", u, 500, 0, 0)
               ELSE /\ cartItems' = cartItems \ found
                    /\ response' = Resp("remove_item", u, 200, b, 0)
    /\ UNCHANGED <<users, staff, carts, books, orders, orderItems, reviews,
                   procs, start>>

\* POST /cart/update_item/: the quantity is taken from the request as is
update_item(u, b, q) ==
    /\ IF ~IsAuthenticated(u)
       THEN /\ UNCHANGED cartItems
            /\ response' = Resp("update_item", u, 401, 0, 0)
       ELSE IF CartsOf(carts, u) = {}
       THEN /\ UNCHANGED cartItems
            /\ response' = Resp("update_item", u, 404, 0, 0)
       ELSE IF Cardinality(CartsOf(carts, u)) > 1
       THEN /\ UNCHANGED cartItems
            /\ response' = Resp("update_item", u, 500, 0, 0)
       ELSE LET cart == CHOOSE c \in CartsOf(carts, u) : TRUE
                found == ItemsFor(cartItems, cart.id, b)
            IN IF found = {}
               THEN /\ UNCHANGED cartItems
                    /\ response' = Resp("update_item", u, 404, 0, 0)
               ELSE IF Cardinality(found) > 1
               THEN /\ UNCHANGED cartItems
                    /\ response' = Resp("update_item", u, 500, 0, 0)
               ELSE /\ cartItems' = (cartItems \ found) \cup
                         {[i EXCEPT !.quantity = q] : i \in found}
                    /\ response' = Resp("update_item", u, 200, b, q)
    /\ UNCHANGED <<users, staff, carts, books, orders, orderItems, reviews,
                   procs, start>>

\* POST /cart/clear/
clear(u) ==
    /\ IF ~IsAuthenticated(u)
       THEN /\ UNCHANGED cartItems
            /\ response' = Resp("clear", u, 401, 0, 0)
       ELSE IF CartsOf(carts, u) = {}
       THEN /\ UNCHANGED cartItems
            /\ response' = Resp("clear", u, 404, 0, 0)
       ELSE IF Cardinality(CartsOf(carts, u)) > 1
       THEN /\ UNCHANGED cartItems
            /\ response' = Resp("clear", u, 500, 0, 0)
       ELSE LET cart == CHOOSE c \in CartsOf(carts, u) : TRUE
            IN /\ cartItems' = cartItems \ ItemsOf(cartItems, cart.id)
               /\ response' = Resp("clear", u, 200, 0, 0)
    /\ UNCHANGED <<users, staff, carts, books, orders, orderItems, reviews,
                   procs, start>>

\* DELETE /cart/{pk}/: CartViewSet is a ModelViewSet, so the router exposes
\* destroy on the requester's own cart (get_queryset); the items cascade
CartViewSet_destroy(u, pk) ==
    /\ IF ~IsAuthenticated(u)
       THEN /\ UNCHANGED <<carts, cartItems>>
            /\ response' = Resp("cart_destroy", u, 401, 0, 0)
       ELSE IF pk \notin {c.id : c \in CartsOf(carts, u)}
       THEN /\ UNCHANGED <<carts, cartItems>>
            /\ response' = Resp("cart_destroy", u, 404, 0, 0)
       ELSE /\ carts' = {c \in carts : c.id # pk}
            /\ cartItems' = cartItems \ ItemsOf(cartItems, pk)
            /\ response' = Resp("cart_destroy", u, 204, 0, 0)
    /\ UNCHANGED <<users, staff, books, orders, orderItems, reviews,
                   procs, start>>

\* POST /cart/: ModelViewSet.create with CartSerializer, whose fields are all
\* read-only: the row would have no user and the insert is refused
CartViewSet_create(u) ==
    /\ response' = Resp("cart_create", u,
                        IF IsAuthenticated(u) THEN 500 ELSE 401, 0, 0)
    /\ UNCHANGED <<users, staff, carts, cartItems, books, orders, orderItems,
                   reviews, procs, start>>

\* ------------------------------------------------------------------ orders
\* the OrderItem rows the loop of OrderSerializer.create creates for order o
\* from the CartItem rows `its`: book, quantity and the book's current price
OrderItemsOf(its, bs, o, taken) ==
    {[id |-> Cardinality(taken) + 1 + Cardinality({j \in its : j.id < i.id}),
      order |-> o, book |-> i.book, quantity |-> i.quantity,
      price |-> BookRow(bs, i.book).price] : i \in its}

\* faulty variant: the stock of an ordered book drops by one, whatever the
\* quantity
StockAfterOrder_byOne(bs, its) ==
    {[r EXCEPT !.stock_quantity =
          @ - Cardinality({i \in its : i.book = r.id})] : r \in bs}

\* the Book rows after the loop: book.stock_quantity -= cart_item.quantity
StockAfterOrder(bs, its) ==
    {[r EXCEPT !.stock_quantity =
          @ - SumQuantity({i \in its : i.book = r.id})] : r \in bs}

\* OrderSerializer.create for a user whose cart c holds items
OrderSerializer_create(u, c) ==
    LET its == ItemsOf(cartItems, c)
        order == [id |-> NextId(orders), user |-> u,
                  total_price |-> Cart_total_price(cartItems, books, c)]
    IN /\ orders' = orders \cup {order}
       /\ orderItems' = orderItems \cup
                        OrderItemsOf(its, books, order.id, orderItems)
       /\ books' = StockAfterOrder(books, its)
       /\ cartItems' = cartItems \ ItemsOf(cartItems, c)

\* faulty variant: the empty-cart check is missing
CartIsEmpty_unchecked(its, c) == FALSE

\* whether OrderSerializer.create raises "Cannot place order with empty cart"
CartIsEmpty(its, c) == ItemsOf(its, c) = {}

\* POST /orders/: OrderViewSet.create -> perform_create -> serializer.save
OrderViewSet_create(u) ==
    /\ IF ~IsAuthenticated(u)
       THEN /\ UNCHANGED <<cartItems, books, orders, orderItems>>
            /\ response' = Resp("place_order", u, 401, 0, 0)
       ELSE IF Cardinality(CartsOf(carts, u)) # 1
       THEN \* Cart.objects.get raises: an unhandled exception
            /\ UNCHANGED <<cartItems, books, orders, orderItems>>
            /\ response' = Resp("place_order", u, 500, 0, 0)
       ELSE LET cart == CHOOSE c \in CartsOf(carts, u) : TRUE
            IN IF CartIsEmpty(cartItems, cart.id)
               THEN /\ UNCHANGED <<cartItems, books, orders, orderItems>>
                    /\ response' = Resp("place_order", u, 400, 0, 0)
               ELSE /\ Cardinality(orders) < MaxOrders
                    /\ OrderSerializer_create(u, cart.id)
                    /\ response' = Resp("place_order", u, 201, 0, 0)
    /\ UNCHANGED <<users, staff, carts, reviews, procs, start>>

\* ----------------------------------------------------------------- reviews
\* ReviewViewSet.get_permissions: IsAuthenticated for every action
ReviewViewSet_get_permissions(action) ==
    IF action \in {"update", "partial_update", "destroy"}
    THEN "IsAuthenticated"
    ELSE "IsAuthenticated"

\* ReviewSerializer.validate: the requester already reviewed attrs["book"]
ReviewSerializer_validate(u, b) ==
    ~ \E r \in reviews : r.book = b /\ r.user = u

\* POST /reviews/ and POST /books/{book_pk}/reviews/
ReviewViewSet_create(u, b, rating) ==
    LET denied == PermissionStatus(ReviewViewSet_get_permissions("create"), u)
    IN /\ IF denied # 0
          THEN /\ UNCHANGED reviews
               /\ response' = Resp("review_create", u, denied, 0, 0)
          ELSE IF b \notin {r.id : r \in books}
                  \/ ~ReviewSerializer_validate(u, b)
          THEN /\ UNCHANGED reviews
               /\ response' = Resp("review_create", u, 400, b, 0)
          ELSE /\ Cardinality(reviews) < MaxReviews
               /\ reviews' = reviews \cup
                    {[id |-> NextId(reviews), book |-> b, user |-> u,
                      rating |-> rating]}
               /\ response' = Resp("review_create", u, 201, b, 0)
       /\ UNCHANGED <<users, staff, carts, cartItems, books, orders,
                      orderItems, procs, start>>

\* PUT /reviews/{pk}/: any authenticated requester; validate() runs with the
\* requester and the book of the request, the row keeps its user
ReviewViewSet_update(u, pk, b, rating) ==
    LET denied == PermissionStatus(ReviewViewSet_get_permissions("update"), u)
    IN /\ IF denied # 0
          THEN /\ UNCHANGED reviews
               /\ response' = Resp("review_update", u, denied, 0, 0)
          ELSE IF pk \notin {r.id : r \in reviews}
          THEN /\ UNCHANGED reviews
               /\ response' = Resp("review_update", u, 404, 0, 0)
          ELSE IF b \notin {r.id : r \in books}
                  \/ ~ReviewSerializer_validate(u, b)
          THEN /\ UNCHANGED reviews
               /\ response' = Resp("review_update", u, 400, 0, 0)
          ELSE /\ reviews' =
                    {IF r.id = pk
                     THEN [r EXCEPT !.book = b, !.rating = rating]
                     ELSE r : r \in reviews}
               /\ response' = Resp("review_update", u, 200, b, pk)
       /\ UNCHANGED <<users, staff, carts, cartItems, books, orders,
                      orderItems, procs, start>>

\* PATCH /reviews/{pk}/ without "book": validate() reads attrs["book"]
ReviewViewSet_partial_update(u, pk) ==
    LET denied ==
          PermissionStatus(ReviewViewSet_get_permissions("partial_update"), u)
    IN /\ response' = Resp("review_partial_update", u,
                           IF denied # 0 THEN denied
                           ELSE IF pk \notin {r.id : r \in reviews} THEN 404
                           ELSE 500, 0, 0)
       /\ UNCHANGED <<users, staff, carts, cartItems, books, orders,
                      orderItems, reviews, procs, start>>

\* DELETE /reviews/{pk}/
ReviewViewSet_destroy(u, pk) ==
    LET denied == PermissionStatus(ReviewViewSet_get_permissions("destroy"), u)
    IN /\ IF denied # 0
          THEN /\ UNCHANGED reviews
               /\ response' = Resp("review_destroy", u, denied, 0, 0)
          ELSE IF pk \notin {r.id : r \in reviews}
          THEN /\ UNCHANGED reviews
               /\ response' = Resp("review_destroy", u, 404, 0, 0)
          ELSE /\ reviews' = {r \in reviews : r.id # pk}
               /\ response' = Resp("review_destroy", u, 204, 0, pk)
       /\ UNCHANGED <<users, staff, carts, cartItems, books, orders,
                      orderItems, procs, start>>

\* ------------------------------------------------- concurrent requests
\* A request in flight: the handler's position and its local objects.  The
\* handlers run under autocommit (no transaction.atomic, no select_for_update
\* in serializers.py or views.py), so every ORM call below is a statement of
\* its own and another request's statements may run between two of them.
Idle ==
    [kind |-> "none", pc |-> "idle", user |-> Anonymous, book |-> 0,
     quantity |-> 0, cart |-> 0, cart_item |-> {}, book_obj |-> {},
     total_price |-> 0, order |-> 0, todo |-> {}, status |-> 0]

\* Model.save(): UPDATE the row of this primary key, INSERT it when no row
\* was updated
Save(rows, obj) == {r \in rows : r.id # obj.id} \cup {obj}

ConcUnchanged == UNCHANGED <<users, staff, carts, reviews, response, start>>

\* POST /cart/add_item/ arrives: authenticated, serializer.is_valid passed
AddItem_Request(p, u, b, q) ==
    /\ procs[p].pc = "idle"
    /\ IsAuthenticated(u) /\ b \in {r.id : r \in books} /\ ValidQuantity(q)
    /\ procs' = [procs EXCEPT ![p] =
         [@ EXCEPT !.kind = "add_item", !.pc = "get_cart", !.user = u,
                   !.book = b, !.quantity = q]]
    /\ UNCHANGED <<cartItems, books, orders, orderItems>>
    /\ ConcUnchanged

\* cart = Cart.objects.get(user=...)  (both handlers)
GetCart(p) ==
    /\ procs[p].pc = "get_cart"
    /\ LET found == CartsOf(carts, procs[p].user)
       IN procs' = [procs EXCEPT ![p] =
            IF Cardinality(found) # 1
            THEN [@ EXCEPT !.pc = "done", !.status = 500]
            ELSE [@ EXCEPT !.cart = (CHOOSE c \in found : TRUE).id,
                           !.pc = IF procs[p].kind = "add_item" THEN "get_item"
                                  ELSE "check_empty"]]
    /\ UNCHANGED <<cartItems, books, orders, orderItems>>
    /\ ConcUnchanged

\* cart_item = CartItem.objects.get(cart=cart, book=book)
AddItem_GetItem(p) ==
    /\ procs[p].pc = "get_item"
    /\ LET found == ItemsFor(cartItems, procs[p].cart, procs[p].book)
       IN procs' = [procs EXCEPT ![p] =
            IF found = {} THEN [@ EXCEPT !.pc = "create_item"]
            ELSE IF Cardinality(found) > 1
            THEN [@ EXCEPT !.pc = "done", !.status = 500]
            ELSE [@ EXCEPT !.cart_item = found, !.pc = "save_item"]]
    /\ UNCHANGED <<cartItems, books, orders, orderItems>>
    /\ ConcUnchanged

\* cart_item.quantity += quantity; cart_item.save()
AddItem_Save(p) ==
    /\ procs[p].pc = "save_item"
    /\ LET obj == CHOOSE i \in procs[p].cart_item : TRUE
       IN cartItems' = Save(cartItems,
             [obj EXCEPT !.quantity = obj.quantity + procs[p].quantity])
    /\ procs' = [procs EXCEPT ![p] = [@ EXCEPT !.pc = "done", !.status = 200]]
    /\ UNCHANGED <<books, orders, orderItems>>
    /\ ConcUnchanged

\* except CartItem.DoesNotExist: CartItem.objects.create(...)
AddItem_Create(p) ==
    /\ procs[p].pc = "create_item"
    /\ cartItems' = cartItems \cup
         {[id |-> NextId(cartItems), cart |-> procs[p].cart,
           book |-> procs[p].book, quantity |-> procs[p].quantity]}
    /\ procs' = [procs EXCEPT ![p] = [@ EXCEPT !.pc = "done", !.status = 200]]
    /\ UNCHANGED <<books, orders, orderItems>>
    /\ ConcUnchanged

\* POST /orders/ arrives: authenticated, serializer.is_valid passed
PlaceOrder_Request(p, u) ==
    /\ procs[p].pc = "idle"
    /\ IsAuthenticated(u)
    /\ procs' = [procs EXCEPT ![p] =
         [@ EXCEPT !.kind = "place_order", !.pc = "get_cart", !.user = u]]
    /\ UNCHANGED <<cartItems, books, orders, orderItems>>
    /\ ConcUnchanged

\* if not cart.items.exists(): raise ValidationError
PlaceOrder_CheckEmpty(p) ==
    /\ procs[p].pc = "check_empty"
    /\ procs' = [procs EXCEPT ![p] =
         IF CartIsEmpty(cartItems, procs[p].cart)
         THEN [@ EXCEPT !.pc = "done", !.status = 400]
         ELSE [@ EXCEPT !.pc = "total_price"]]
    /\ UNCHANGED <<cartItems, books, orders, orderItems>>
    /\ ConcUnchanged

\* total_price = cart.total_price
PlaceOrder_Total(p) ==
    /\ procs[p].pc = "total_price"
    /\ procs' = [procs EXCEPT ![p] =
         [@ EXCEPT !.total_price =
                      Cart_total_price(cartItems, books, procs[p].cart),
                   !.pc = "create_order"]]
    /\ UNCHANGED <<cartItems, books, orders, orderItems>>
    /\ ConcUnchanged

\* order = Order.objects.create(user=user, total_price=total_price, ...)
PlaceOrder_CreateOrder(p) ==
    /\ procs[p].pc = "create_order"
    /\ orders' = orders \cup
         {[id |-> NextId(orders), user |-> procs[p].user,
           total_price |-> procs[p].total_price]}
    /\ procs' = [procs EXCEPT ![p] =
         [@ EXCEPT !.order = NextId(orders), !.pc = "fetch_items"]]
    /\ UNCHANGED <<cartItems, books, orderItems>>
    /\ ConcUnchanged

\* for cart_item in cart.items.all(): the query runs when the loop starts
PlaceOrder_FetchItems(p) ==
    /\ procs[p].pc = "fetch_items"
    /\ procs' = [procs EXCEPT ![p] =
         [@ EXCEPT !.todo = ItemsOf(cartItems, procs[p].cart),
                   !.pc = "loop"]]
    /\ UNCHANGED <<cartItems, books, orders, orderItems>>
    /\ ConcUnchanged

\* the next cart_item of the loop; cart_item.book loads the Book row, which
\* the iteration then keeps (price and stock_quantity as read here)
PlaceOrder_FetchBook(p) ==
    /\ procs[p].pc = "loop"
    /\ procs' = [procs EXCEPT ![p] =
         IF procs[p].todo = {}
         THEN [@ EXCEPT !.pc = "delete_items"]
         ELSE LET it == CHOOSE i \in procs[p].todo :
                           \A j \in procs[p].todo : i.id <= j.id
              IN [@ EXCEPT !.cart_item = {it},
                           !.book_obj = {r \in books : r.id = it.book},
                           !.todo = @ \ {it},
                           !.pc = "create_order_item"]]
    /\ UNCHANGED <<cartItems, books, orders, orderItems>>
    /\ ConcUnchanged

\* OrderItem.objects.create(order, book, quantity, price=cart_item.book.price)
PlaceOrder_CreateOrderItem(p) ==
    /\ procs[p].pc = "create_order_item"
    /\ LET it == CHOOSE i \in procs[p].cart_item : TRUE
           book == CHOOSE r \in procs[p].book_obj : TRUE
       IN orderItems' = orderItems \cup
            {[id |-> NextId(orderItems), order |-> procs[p].order,
              book |-> it.book, quantity |-> it.quantity,
              price |-> book.price]}
    /\ procs' = [procs EXCEPT ![p] = [@ EXCEPT !.pc = "save_stock"]]
    /\ UNCHANGED <<cartItems, books, orders>>
    /\ ConcUnchanged

\* book.stock_quantity -= cart_item.quantity; book.save()
PlaceOrder_SaveStock(p) ==
    /\ procs[p].pc = "save_stock"
    /\ LET it == CHOOSE i \in procs[p].cart_item : TRUE
           book == CHOOSE r \in procs[p].book_obj : TRUE
       IN books' = Save(books,
            [book EXCEPT !.stock_quantity = book.stock_quantity - it.quantity])
    /\ procs' = [procs EXCEPT ![p] = [@ EXCEPT !.pc = "loop"]]
    /\ UNCHANGED <<cartItems, orders, orderItems>>
    /\ ConcUnchanged

\* cart.items.all().delete(); return order
PlaceOrder_DeleteItems(p) ==
    /\ procs[p].pc = "delete_items"
    /\ cartItems' = cartItems \ ItemsOf(cartItems, procs[p].cart)
    /\ procs' = [procs EXCEPT ![p] = [@ EXCEPT !.pc = "done", !.status = 201]]
    /\ UNCHANGED <<books, orders, orderItems>>
    /\ ConcUnchanged

\* a write of OrderSerializer.create raises (a database error): the handler
\* is left through the exception, what the earlier statements wrote stays
PlaceOrder_Fails(p) ==
    /\ procs[p].kind = "place_order"
    /\ procs[p].pc \in {"create_order", "create_order_item", "save_stock",
                        "delete_items"}
    /\ procs' = [procs EXCEPT ![p] = [@ EXCEPT !.pc = "failed", !.status = 500]]
    /\ UNCHANGED <<cartItems, books, orders, orderItems>>
    /\ ConcUnchanged

\* ---------------------------------------------------------------- initial
Init ==
    /\ users = {Admin}
    /\ staff = {Admin}
    /\ carts = {}
    /\ cartItems = {}
    /\ books = {}
    /\ orders = {}
    /\ orderItems = {}
    /\ reviews = {}
    /\ response = Resp("none", Anonymous, 0, 0, 0)
    /\ procs = <<>>
    /\ start = <<>>

\* ------------------------------------------------------------ specification
Next ==
    \/ \E u \in RegNames, m \in BOOLEAN : RegisterView(u, m)
    \/ \E u \in Requesters, p \in 1..MaxPrice, k \in 1..MaxStock :
          BookViewSet_create(u, p, k)
    \/ \E u \in Requesters, b \in BookIds, q \in 0..MaxQty : add_item(u, b, q)
    \/ \E u \in Requesters, b \in BookIds : remove_item(u, b)
    \/ \E u \in Requesters, b \in BookIds, q \in 0..MaxQty :
          update_item(u, b, q)
    \/ \E u \in Requesters : clear(u)
    \/ \E u \in Requesters, pk \in 1..Cardinality(RegNames) :
          CartViewSet_destroy(u, pk)
    \/ \E u \in Requesters : CartViewSet_create(u)
    \/ \E u \in Requesters : OrderViewSet_create(u)

Spec == Init /\ [][Next]_vars

\* the review endpoints, on a database with registered users and a catalogue
ReviewInit ==
    /\ users = Reviewers \cup {Admin}
    /\ staff = {Admin}
    /\ carts = {[id |-> 1, user |-> "alice"], [id |-> 2, user |-> "bob"]}
    /\ cartItems = {}
    /\ books = {[id |-> b, price |-> 1, stock_quantity |-> 1] : b \in BookIds}
    /\ orders = {}
    /\ orderItems = {}
    /\ reviews = {}
    /\ response = Resp("none", Anonymous, 0, 0, 0)
    /\ procs = <<>>
    /\ start = <<>>

ReviewNext ==
    \/ \E u \in ReviewRequesters, b \in BookIds, r \in 1..MaxRating :
          ReviewViewSet_create(u, b, r)
    \/ \E u \in ReviewRequesters, pk \in 1..MaxReviews, b \in BookIds,
          r \in 1..MaxRating : ReviewViewSet_update(u, pk, b, r)
    \/ \E u \in ReviewRequesters, pk \in 1..MaxReviews :
          ReviewViewSet_partial_update(u, pk)
    \/ \E u \in ReviewRequesters, pk \in 1..MaxReviews :
          ReviewViewSet_destroy(u, pk)

ReviewSpec == ReviewInit /\ [][ReviewNext]_vars

\* two requests of one registered user arrive at a database that holds her
\* cart (empty, or with one or two items) and a catalogue of two books
ConcCartItems ==
    { {},
      {[id |-> 1, cart |-> 1, book |-> 1, quantity |-> 1]},
      {[id |-> 1, cart |-> 1, book |-> 1, quantity |-> 1],
       [id |-> 2, cart |-> 1, book |-> 2, quantity |-> 2]} }

ConcInit ==
    /\ users = RegNames \cup {Admin}
    /\ staff = {Admin}
    /\ carts = {[id |-> 1, user |-> "alice"]}
    /\ cartItems \in ConcCartItems
    /\ books = {[id |-> b, price |-> b, stock_quantity |-> InitialStock] :
                   b \in 1..2}
    /\ orders = {}
    /\ orderItems = {}
    /\ reviews = {}
    /\ response = Resp("none", Anonymous, 0, 0, 0)
    /\ procs = [p \in Procs |-> Idle]
    /\ start = [cartItems |-> cartItems, books |-> books]

ConcNext ==
    \E p \in Procs :
       \/ \E u \in RegNames, b \in 1..2, q \in 1..MaxQty :
             AddItem_Request(p, u, b, q)
       \/ \E u \in RegNames : PlaceOrder_Request(p, u)
       \/ GetCart(p)
       \/ AddItem_GetItem(p)
       \/ AddItem_Save(p)
       \/ AddItem_Create(p)
       \/ PlaceOrder_CheckEmpty(p)
       \/ PlaceOrder_Total(p)
       \/ PlaceOrder_CreateOrder(p)
       \/ PlaceOrder_FetchItems(p)
       \/ PlaceOrder_FetchBook(p)
       \/ PlaceOrder_CreateOrderItem(p)
       \/ PlaceOrder_SaveStock(p)
       \/ PlaceOrder_DeleteItems(p)
       \/ PlaceOrder_Fails(p)

ConcSpec == ConcInit /\ [][ConcNext]_vars

\* ------------------------------------------------------------------ claims
\* the step just taken answered request `op` of user u with `status`
Answered(op, u, status) ==
    /\ response'.op = op
    /\ response'.user = u
    /\ response'.status = status

\* the step just taken is request `op` of user u, whatever its answer
Requested(op, u) == response'.op = op /\ response'.user = u

\* the quantity of book b in the CartItem rows `its` (no row: 0)
QuantityOf(its, b) ==
    IF \E i \in its : i.book = b
    THEN (CHOOSE i \in its : i.book = b).quantity
    ELSE 0

\* the sum over the books 1..n of price times the quantity held in `its`
RECURSIVE TotalOfBooks(_, _, _)
TotalOfBooks(n, its, bs) ==
    IF n = 0 THEN 0
    ELSE TotalOfBooks(n - 1, its, bs)
         + (IF \E r \in bs : r.id = n
            THEN BookRow(bs, n).price * QuantityOf(its, n)
            ELSE 0)

C1_Placed(u) ==
    LET c == CHOOSE x \in CartsOf(carts, u) : TRUE
        its == ItemsOf(cartItems, c.id)
        newOrders == orders' \ orders
        newItems == orderItems' \ orderItems
    IN /\ response'.status = 201
       /\ orders \subseteq orders'
       /\ Cardinality(newOrders) = 1
       /\ \A o \in newOrders :
             /\ o.user = u
             /\ o.total_price = TotalOfBooks(MaxBooks, its, books)
             /\ \A oi \in newItems : oi.order = o.id
       /\ orderItems \subseteq orderItems'
       /\ Cardinality(newItems) = Cardinality(its)
       /\ \A i \in its :
             Cardinality({oi \in newItems :
                 /\ oi.book = i.book
                 /\ oi.quantity = i.quantity
                 /\ oi.price = BookRow(books, i.book).price}) = 1
       /\ {r.id : r \in books'} = {r.id : r \in books}
       /\ \A r \in books :
             /\ BookRow(books', r.id).price = r.price
             /\ BookRow(books', r.id).stock_quantity =
                   r.stock_quantity - QuantityOf(its, r.id)
       /\ ItemsOf(cartItems', c.id) = {}
       /\ cartItems' = cartItems \ its
       /\ carts' = carts

\* C1: placing an order for a user whose cart holds at least one item creates
\* exactly one Order of that user whose total_price is the sum of price times
\* quantity over the cart items, one OrderItem per cart item with its book,
\* quantity and the book's price, lowers each ordered book's stock by the
\* ordered quantity, and leaves the cart empty and in existence.
C1_PlaceOrder ==
    [][\A u \in Requesters :
          (/\ Requested("place_order", u)
           /\ IsAuthenticated(u)
           /\ Cardinality(CartsOf(carts, u)) = 1
           /\ \E c \in CartsOf(carts, u) : ItemsOf(cartItems, c.id) # {})
          => C1_Placed(u)]_vars

\* an order was placed from a cart of two items, at two different prices
C1_Witness ==
    /\ response.op = "place_order"
    /\ response.status = 201
    /\ \E o \in orders :
          /\ o.total_price > 0
          /\ \E x, y \in orderItems :
                /\ x.order = o.id /\ y.order = o.id
                /\ x.book # y.book
                /\ x.price # y.price
                /\ x.quantity = 2

AtMostOneItemPerBook(its) ==
    \A i, j \in its : (i.cart = j.cart /\ i.book = j.book) => i = j

C3_Added(u, b, q) ==
    LET c == CHOOSE x \in CartsOf(carts, u) : TRUE
        before == ItemsFor(cartItems, c.id, b)
        after == ItemsFor(cartItems', c.id, b)
    IN /\ Cardinality(after) = 1
       /\ \A i \in after : i.quantity = QuantityOf(before, b) + q
       /\ cartItems' \ after = cartItems \ before
       /\ before # {} => {i.id : i \in after} = {i.id : i \in before}

\* C3: after any sequence of requests a cart holds at most one CartItem per
\* book; add_item of a book not in the cart creates one CartItem with the
\* requested quantity, add_item of a book in the cart adds the requested
\* quantity to the quantity of the existing CartItem.
C3_MergeAdd ==
    [][/\ AtMostOneItemPerBook(cartItems')
       /\ \A u \in Requesters :
             Answered("add_item", u, 200) =>
                C3_Added(u, response'.book, response'.quantity)]_vars

\* the same book was added twice: one row holds the sum of the quantities
C3_Witness ==
    /\ response.op = "add_item"
    /\ response.status = 200
    /\ response.quantity = 2
    /\ \E i \in cartItems : i.book = response.book /\ i.quantity = 3
    /\ Cardinality(cartItems) = 2

\* C6: placing an order when the requester's cart has no items fails with
\* the 400 validation error and creates no Order, no OrderItem and changes no
\* book's stock.
C6_EmptyCart ==
    [][\A u \in Requesters :
          (/\ Requested("place_order", u)
           /\ IsAuthenticated(u)
           /\ Cardinality(CartsOf(carts, u)) = 1
           /\ \A c \in CartsOf(carts, u) : ItemsOf(cartItems, c.id) = {})
          => /\ response'.status = 400
             /\ UNCHANGED <<orders, orderItems, books, cartItems, carts>>]_vars

\* an order was refused on an empty cart while the catalogue holds a book
C6_Witness ==
    /\ response.op = "place_order"
    /\ response.status = 400
    /\ books # {}
    /\ \E c \in CartsOf(carts, response.user) : ItemsOf(cartItems, c.id) = {}

\* C7: every Book's stock_quantity is at least 0 in every reachable state.
C7_StockNonNegative == \A r \in books : r.stock_quantity >= 0

\* C8: every user who registered has exactly one Cart, from registration on.
C8_ExactlyOneCart ==
    \A u \in users \ {Admin} : Cardinality(CartsOf(carts, u)) = 1

\* C10: creating a book without authentication is answered 401, by an
\* authenticated user who is not staff 403, and adds no Book in either case.
C10_BookCreateAdminOnly ==
    [][\A u \in Requesters :
          (Requested("book_create", u) /\ u \notin staff)
          => /\ response'.status = (IF IsAuthenticated(u) THEN 403 ELSE 401)
             /\ books' = books]_vars

AtMostOneReviewPerPair(rs) ==
    \A x, y \in rs : (x.book = y.book /\ x.user = y.user) => x = y

\* C9: there is at most one Review per (book, user) pair after any sequence
\* of review create and update requests, and a create request of a user who
\* already reviewed the book is answered 400 and leaves the Reviews unchanged.
C9_OneReviewPerPair ==
    [][/\ AtMostOneReviewPerPair(reviews')
       /\ \A u \in ReviewRequesters :
             (/\ Requested("review_create", u)
              /\ IsAuthenticated(u)
              /\ \E r \in reviews : r.user = u /\ r.book = response'.book)
             => (response'.status = 400 /\ reviews' = reviews)]_vars

\* C2: order placement is all-or-nothing: when a write of
\* OrderSerializer.create fails, the state equals the state before the
\* request (no Order, no OrderItem, no stock change, the cart items kept).
C2_AllOrNothing ==
    \A p \in Procs :
       (/\ procs[p].kind = "place_order"
        /\ procs[p].pc = "failed"
        /\ \A q \in Procs \ {p} : procs[q].pc = "idle")
       => /\ orders = {}
          /\ orderItems = {}
          /\ books = start.books
          /\ cartItems = start.cartItems

\* C4: two concurrent add_item requests of one user for the same book with
\* quantities q1 and q2 leave exactly one CartItem for the book, its quantity
\* grown by q1 + q2.
C4_AtomicAdd ==
    \A p, q \in Procs :
       (/\ p # q
        /\ procs[p].kind = "add_item" /\ procs[q].kind = "add_item"
        /\ procs[p].user = procs[q].user /\ procs[p].book = procs[q].book
        /\ procs[p].pc = "done" /\ procs[q].pc = "done")
       => LET rows == ItemsFor(cartItems, procs[p].cart, procs[p].book)
          IN /\ Cardinality(rows) = 1
             /\ \A i \in rows :
                   i.quantity = QuantityOf(start.cartItems, procs[p].book)
                                + procs[p].quantity + procs[q].quantity

\* C5: two concurrent place-order requests on one cart end as if run one
\* after the other: one Order, one OrderItem per cart item, every stock
\* lowered once by the cart quantity, and the second request refused (400).
C5_SerializedOrders ==
    \A p, q \in Procs :
       (/\ p # q
        /\ procs[p].kind = "place_order" /\ procs[q].kind = "place_order"
        /\ procs[p].user = procs[q].user
        /\ procs[p].pc = "done" /\ procs[q].pc = "done"
        /\ start.cartItems # {})
       => /\ {procs[p].status, procs[q].status} = {201, 400}
          /\ Cardinality(orders) = 1
          /\ Cardinality(orderItems) = Cardinality(start.cartItems)
          /\ \A r \in start.books :
                BookRow(books, r.id).stock_quantity =
                   r.stock_quantity - QuantityOf(start.cartItems, r.id)

\* C11: updating or deleting a Review succeeds only when the requester is the
\* review's author (or is staff); the request of any other authenticated user
\* is refused and leaves the Review unchanged and present.
C11_AuthorOnly ==
    [][\A u \in ReviewRequesters :
          (/\ Requested("review_update", u) \/ Requested("review_destroy", u)
           /\ response'.status \in {200, 204} \/ reviews' # reviews)
          => \E r \in reviews :
                /\ r.id = response'.quantity
                /\ r.user = u \/ u \in staff]_vars

\* C12: every CartItem's quantity is a positive integer in every reachable
\* state; update_item never leaves a quantity of 0 or less.
C12_PositiveQuantity == \A i \in cartItems : i.quantity >= 1

====
